---- MODULE Spec2Model ----
(***************************************************************************)
(* A model of the delivery pipeline of exa-chat-notifier:                  *)
(*   BatchManager     (src/src/batch-manager.ts)                           *)
(*   NotifierImpl     (src/unnamed/part_001, lines 139-323)                *)
(*   IdempotencyCache (src/unnamed/part_001, lines 325-422)                *)
(*   HttpClient       (src/src/http-client.ts)                             *)
(*                                                                         *)
(* Node's event loop runs one callback to its first await at a time, so    *)
(* every action below is one such synchronous stretch of code.             *)
(***************************************************************************)
EXTENDS Integers, Sequences, FiniteSets

VARIABLES
  \* BatchManager
  opts,        \* BatchManager.options: [size, flushOnDestroy]
  queue,       \* BatchManager.queue: Seq of BatchItem
  flushing,    \* BatchManager.flushing
  timer,       \* BatchManager.timer is set (the interval is live)
  immediates,  \* number of setImmediate callbacks add() has scheduled and that have not run yet
  runs,        \* the onFlush invocations in progress: [batch, src, d]
  nextId,      \* id of the next payload handed to add() or to sendSingle()
  \* NotifierImpl, IdempotencyCache, HttpClient
  cfg,         \* the NotifierOptions and schema capabilities the notifier was built with
  cache,       \* IdempotencyCache.cache: key -> expiresAt
  cleanupTimer, \* IdempotencyCache.cleanupTimer is live
  now,         \* Date.now()
  sends,       \* the sendSingle() calls waiting in httpClient.post: [payload, attempt, direct]
  itemErr,     \* ids of the batch items whose promise in sendBatch() rejected
  ndestroy,    \* the NotifierImpl.destroy() calls waiting for batchManager.destroy(): indices of dlog
  \* history of the run, read by the properties only
  calls,       \* number of onFlush invocations so far
  passed,      \* passed[id]: number of batches handed to onFlush that held item id
  settled,     \* ids of the items whose onFlush invocation resolved
  failed,      \* ids of the items whose onFlush invocation threw or rejected
  unhandled,   \* a flush() nobody awaits (timer, setImmediate) has rejected
  discarded,   \* ids of the items destroy() dropped with `this.queue = []`
  dlog,        \* every BatchManager.destroy() call so far: [snap, st]
  burst,       \* number of add() calls made in a row since the queue was empty with no flush in progress
  delivered,   \* delivered[key]: number of payloads with that key httpClient.post has delivered
  lastOp,      \* the operation the last step performed ("event": a callback of the notifier's event loop;
               \* "postFailed": the one in which the promise of httpClient.post rejects)
  \* observers and the parts checked on their own
  callbacks,   \* the invocations of options.onSuccess / options.onError so far: [fn, id]
  ret,         \* the last call of a part checked on its own: its argument and what it returned, [key, val]
  http,        \* one HttpClient.post call: the client's options, the loop's position and its history
  level,       \* options.level ?? 'all'
  schemaFilter, \* TRUE when the schema supplies isImportantEvent
  seen,        \* the event, type and status fields of the payload of the last notify() call
  webhooks,    \* the keys of ConfigManager.webhooks
  schemaWebhook, \* what the schema's getWebhookName returns ("" for undefined), Absent when it has none
  destroyed,   \* TRUE once destroy() has been called on the notifier
  notifyEnded  \* the promises of notify() calls that waited in sendSingle and have settled: [id, how]

bmVars == <<opts, queue, flushing, timer, immediates, runs, nextId>>
bmHist == <<calls, passed, settled, failed, unhandled, discarded, dlog, burst>>
nVars == <<cfg, cache, cleanupTimer, now, sends, itemErr, ndestroy, delivered>>

oVars == <<callbacks, ret, http, level, schemaFilter, webhooks, schemaWebhook, destroyed, notifyEnded>>
xVars == <<oVars, seen>>

vars == <<bmVars, bmHist, nVars, lastOp, xVars>>

(***************************************************************************)
(* Bounds of the model.                                                    *)
(***************************************************************************)
MaxItems == 3        \* BatchManager alone: add() is called at most this many times
MaxNotify == 2       \* NotifierImpl: at most this many payloads get past the checks of notify()
MaxBatchSize == 2    \* options.size ranges over 1..MaxBatchSize
MaxDestroy == 2      \* BatchManager.destroy() is called at most this many times
MaxNotifierDestroy == 1  \* NotifierImpl.destroy() of a batching notifier is called at most this many times
MaxTime == 2         \* Date.now() ranges over 0..MaxTime
TtlMs == 1           \* options.idempotencyTtlMs, in clock ticks
RetryMax == 2        \* options.retryMax
MaxAttempts == 4     \* HttpClient alone: options.maxRetries ranges over 0..MaxAttempts

\* webhookName?: string -- "" stands for undefined
WebhookNames == {"", "errors"}

\* what getIdempotencyKey(payload) returns -- "" stands for undefined
Keys == {"k1"}

\* what the caller-supplied onFlush does: returns a promise that settles later,
\* or throws before returning one
OnFlushOutcomes == {"async", "throw"}

\* A payload, as far as the pipeline reads it: its identity, the idempotency key
\* the schema derives from it, and whether schema.buildCard throws on it.
Payload(id, key, bad) == [id |-> id, key |-> key, bad |-> bad]

BatchItem(payload, wh) == [payload |-> payload, webhookName |-> wh]

Ids(s) == {s[i].payload.id : i \in 1..Len(s)}

\* flush() is called by a caller ("manual"), by the interval ("timer"), by the
\* setImmediate of add() ("size") and by destroy() ("destroy"); only the first and
\* the last await the promise it returns
Awaited(src) == src \in {"manual", "destroy"}

\* a field the payload does not have (undefined)
Absent == "absent"

\* a payload without event, type or status
NoEvent == [event |-> Absent, type |-> Absent, status |-> Absent]

\* no HttpClient.post call is followed attempt by attempt, no IdempotencyCache
\* call has returned, neither options.onSuccess nor options.onError was invoked,
\* the level is the default 'all', and one webhook is configured by name
Unobserved ==
  /\ webhooks = {"errors"} /\ schemaWebhook = Absent /\ destroyed = FALSE /\ notifyEnded = {}
  /\ level = "all" /\ schemaFilter = FALSE /\ seen = NoEvent
  /\ callbacks = {}
  /\ ret = [key |-> "", val |-> FALSE]
  /\ http = [maxRetries |-> 0, initialDelayMs |-> 0, attempt |-> 0, phase |-> "idle",
             log |-> <<>>, sleeps |-> <<>>, error |-> 0]

(***************************************************************************)
(* BatchManager                                                            *)
(***************************************************************************)

\* constructor: queue = [], flushing = false, startTimer()
BatchManager_constructor ==
  /\ opts \in [size : 1..MaxBatchSize, flushOnDestroy : BOOLEAN]
  /\ queue = <<>>
  /\ flushing = FALSE
  /\ timer = TRUE
  /\ immediates = 0
  /\ runs = {}
  /\ nextId = 1
  /\ calls = 0
  /\ passed = [id \in {} |-> 0]
  /\ settled = {}
  /\ failed = {}
  /\ unhandled = FALSE
  /\ discarded = {}
  /\ dlog = <<>>
  /\ burst = 0

\* The history of one onFlush(batch) invocation made for src.
Handed(batch, src, outcome) ==
  /\ calls' = calls + 1
  /\ passed' = [id \in DOMAIN passed \cup Ids(batch) |->
                  (IF id \in DOMAIN passed THEN passed[id] ELSE 0)
                  + (IF id \in Ids(batch) THEN 1 ELSE 0)]
  /\ failed' = IF outcome = "throw" THEN failed \cup Ids(batch) ELSE failed
  /\ unhandled' = (unhandled \/ (outcome = "throw" /\ ~Awaited(src)))
  /\ UNCHANGED settled

\* flush() that hands the items over last added first
BatchManager_flush_reversed(src, d, outcome) ==
  IF flushing \/ Len(queue) = 0
  THEN UNCHANGED <<queue, flushing, runs, calls, passed, settled, failed, unhandled>>
  ELSE /\ queue' = <<>>
       /\ runs' = IF outcome = "throw" THEN runs
                  ELSE runs \cup {[batch |-> [i \in 1..Len(queue) |-> queue[Len(queue) + 1 - i]],
                                   src |-> src, d |-> d]}
       /\ flushing' = (outcome # "throw")
       /\ Handed(queue, src, outcome)

\* flush() without the `this.queue.length === 0` test of its first line
BatchManager_flush_noEmptyTest(src, d, outcome) ==
  IF flushing
  THEN UNCHANGED <<queue, flushing, runs, calls, passed, settled, failed, unhandled>>
  ELSE /\ queue' = <<>>
       /\ runs' = IF outcome = "throw" THEN runs
                  ELSE runs \cup {[batch |-> queue, src |-> src, d |-> d]}
       /\ flushing' = (outcome # "throw")
       /\ Handed(queue, src, outcome)

\* flush() without the `this.flushing` test of its first line
BatchManager_flush_noGate(src, d, outcome) ==
  IF Len(queue) = 0
  THEN UNCHANGED <<queue, flushing, runs, calls, passed, settled, failed, unhandled>>
  ELSE /\ queue' = <<>>
       /\ runs' = IF outcome = "throw" THEN runs
                  ELSE runs \cup {[batch |-> queue, src |-> src, d |-> d]}
       /\ flushing' = (outcome # "throw")
       /\ Handed(queue, src, outcome)

\* flush() that copies the queue (slice) where the code drains it (splice)
BatchManager_flush_noDrain(src, d, outcome) ==
  IF flushing \/ Len(queue) = 0
  THEN UNCHANGED <<queue, flushing, runs, calls, passed, settled, failed, unhandled>>
  ELSE /\ queue' = queue
       /\ runs' = IF outcome = "throw" THEN runs
                  ELSE runs \cup {[batch |-> queue, src |-> src, d |-> d]}
       /\ flushing' = (outcome # "throw")
       /\ Handed(queue, src, outcome)

\* flush(), called by src (destroy call d, or 0); onFlush behaves as `outcome`.
BatchManager_flush(src, d, outcome) ==
  IF flushing \/ Len(queue) = 0
  THEN UNCHANGED <<queue, flushing, runs, calls, passed, settled, failed, unhandled>>
  ELSE /\ queue' = <<>>                                   \* splice(0, length)
       /\ runs' = IF outcome = "throw" THEN runs
                  ELSE runs \cup {[batch |-> queue, src |-> src, d |-> d]}
       /\ flushing' = (outcome # "throw")                 \* finally runs at once when onFlush throws
       /\ Handed(queue, src, outcome)

\* add() that calls flush() itself when the queue reaches size
BatchManager_add_inline(payload, wh) ==
  /\ payload.id = nextId
  /\ nextId' = nextId + 1
  /\ LET q == Append(queue, BatchItem(payload, wh)) IN
     IF Len(q) >= opts.size /\ ~flushing
     THEN /\ queue' = <<>>
          /\ runs' = runs \cup {[batch |-> q, src |-> "size", d |-> 0]}
          /\ flushing' = TRUE
          /\ Handed(q, "size", "async")
     ELSE /\ queue' = q
          /\ UNCHANGED <<flushing, runs, calls, passed, settled, failed, unhandled>>
  /\ burst' = IF Len(queue) = 0 /\ ~flushing THEN 1
              ELSE IF burst > 0 THEN burst + 1 ELSE 0
  /\ UNCHANGED <<opts, timer, immediates, discarded, dlog>>

\* add() that schedules the flush only once the queue is longer than size
BatchManager_add_strict(payload, wh) ==
  /\ payload.id = nextId
  /\ queue' = Append(queue, BatchItem(payload, wh))
  /\ nextId' = nextId + 1
  /\ immediates' = IF Len(queue) + 1 > opts.size THEN immediates + 1 ELSE immediates
  /\ burst' = IF Len(queue) = 0 /\ ~flushing THEN 1
              ELSE IF burst > 0 THEN burst + 1 ELSE 0
  /\ UNCHANGED <<opts, flushing, timer, runs, calls, passed, settled, failed, unhandled, discarded, dlog>>

\* add(payload, webhookName)
BatchManager_add(payload, wh) ==
  /\ payload.id = nextId
  /\ queue' = Append(queue, BatchItem(payload, wh))
  /\ nextId' = nextId + 1
  /\ immediates' = IF Len(queue) + 1 >= opts.size THEN immediates + 1 ELSE immediates
  /\ burst' = IF Len(queue) = 0 /\ ~flushing THEN 1
              ELSE IF burst > 0 THEN burst + 1 ELSE 0
  /\ UNCHANGED <<opts, flushing, timer, runs, calls, passed, settled, failed, unhandled, discarded, dlog>>

\* a caller's flush(); O is what onFlush may do
BatchManager_manualFlush(O) ==
  /\ \E o \in O : BatchManager_flush("manual", 0, o)
  /\ burst' = 0
  /\ UNCHANGED <<opts, timer, immediates, nextId, discarded, dlog>>

\* the callback add() handed to setImmediate
BatchManager_immediate(O) ==
  /\ immediates > 0
  /\ immediates' = immediates - 1
  /\ \E o \in O : BatchManager_flush("size", 0, o)
  /\ burst' = 0
  /\ UNCHANGED <<opts, timer, nextId, discarded, dlog>>

\* an interval callback that waits for a full batch
BatchManager_startTimer_fullOnly(O) ==
  /\ timer
  /\ IF Len(queue) >= opts.size
     THEN \E o \in O : BatchManager_flush("timer", 0, o)
     ELSE UNCHANGED <<queue, flushing, runs, calls, passed, settled, failed, unhandled>>
  /\ burst' = 0
  /\ UNCHANGED <<opts, timer, immediates, nextId, discarded, dlog>>

\* startTimer() with setTimeout where the code has setInterval
BatchManager_startTimer_once(O) ==
  /\ timer
  /\ timer' = FALSE
  /\ IF Len(queue) > 0
     THEN \E o \in O : BatchManager_flush("timer", 0, o)
     ELSE UNCHANGED <<queue, flushing, runs, calls, passed, settled, failed, unhandled>>
  /\ burst' = 0
  /\ UNCHANGED <<opts, immediates, nextId, discarded, dlog>>

\* the callback startTimer() handed to setInterval
BatchManager_startTimer(O) ==
  /\ timer
  /\ IF Len(queue) > 0
     THEN \E o \in O : BatchManager_flush("timer", 0, o)
     ELSE UNCHANGED <<queue, flushing, runs, calls, passed, settled, failed, unhandled>>
  /\ burst' = 0
  /\ UNCHANGED <<opts, timer, immediates, nextId, discarded, dlog>>

\* destroy() that flushes whatever flushOnDestroy says
BatchManager_destroy_alwaysFlush(O) ==
  /\ Len(dlog) < MaxDestroy
  /\ timer' = FALSE
  /\ IF Len(queue) > 0
     THEN /\ \E o \in O : BatchManager_flush("destroy", Len(dlog) + 1, o)
          /\ UNCHANGED discarded
     ELSE /\ queue' = <<>>
          /\ discarded' = discarded \cup Ids(queue)
          /\ UNCHANGED <<flushing, runs, calls, passed, settled, failed, unhandled>>
  /\ dlog' = Append(dlog,
       [snap |-> Ids(queue),
        st |-> IF runs' # runs THEN "pending"
               ELSE IF failed' # failed THEN "rejected"
               ELSE "resolved"])
  /\ burst' = 0
  /\ UNCHANGED <<opts, immediates, nextId>>

\* destroy(): the promise it returns is that of the flush() it awaits, or
\* resolves at once
BatchManager_destroy(O) ==
  /\ Len(dlog) < MaxDestroy
  /\ timer' = FALSE
  /\ IF opts.flushOnDestroy /\ Len(queue) > 0
     THEN /\ \E o \in O : BatchManager_flush("destroy", Len(dlog) + 1, o)
          /\ UNCHANGED discarded
     ELSE /\ queue' = <<>>
          /\ discarded' = discarded \cup Ids(queue)
          /\ UNCHANGED <<flushing, runs, calls, passed, settled, failed, unhandled>>
  /\ dlog' = Append(dlog,
       [snap |-> Ids(queue),
        st |-> IF runs' # runs THEN "pending"
               ELSE IF failed' # failed THEN "rejected"
               ELSE "resolved"])
  /\ burst' = 0
  /\ UNCHANGED <<opts, immediates, nextId>>

\* flush() that puts the batch back at the head of the queue when onFlush rejects
BatchManager_onFlushSettled_putsBack(r, ok) ==
  /\ r \in runs
  /\ runs' = runs \ {r}
  /\ flushing' = FALSE
  /\ queue' = IF ok THEN queue ELSE r.batch \o queue
  /\ settled' = IF ok THEN settled \cup Ids(r.batch) ELSE settled
  /\ failed' = IF ok THEN failed ELSE failed \cup Ids(r.batch)
  /\ unhandled' = (unhandled \/ (~ok /\ ~Awaited(r.src)))
  /\ dlog' = IF r.src = "destroy"
             THEN [dlog EXCEPT ![r.d].st = IF ok THEN "resolved" ELSE "rejected"]
             ELSE dlog
  /\ burst' = 0
  /\ UNCHANGED <<opts, timer, immediates, nextId, calls, passed, discarded>>

\* flush() whose `this.flushing = false` follows the await instead of standing
\* in a finally block
BatchManager_onFlushSettled_noFinally(r, ok) ==
  /\ r \in runs
  /\ runs' = runs \ {r}
  /\ flushing' = ~ok
  /\ settled' = IF ok THEN settled \cup Ids(r.batch) ELSE settled
  /\ failed' = IF ok THEN failed ELSE failed \cup Ids(r.batch)
  /\ unhandled' = (unhandled \/ (~ok /\ ~Awaited(r.src)))
  /\ dlog' = IF r.src = "destroy"
             THEN [dlog EXCEPT ![r.d].st = IF ok THEN "resolved" ELSE "rejected"]
             ELSE dlog
  /\ burst' = 0
  /\ UNCHANGED <<opts, queue, timer, immediates, nextId, calls, passed, discarded>>

\* the promise onFlush returned settles: the rest of flush() runs (finally),
\* and the promise of flush() settles the same way
BatchManager_onFlushSettled(r, ok) ==
  /\ r \in runs
  /\ runs' = runs \ {r}
  /\ flushing' = FALSE
  /\ settled' = IF ok THEN settled \cup Ids(r.batch) ELSE settled
  /\ failed' = IF ok THEN failed ELSE failed \cup Ids(r.batch)
  /\ unhandled' = (unhandled \/ (~ok /\ ~Awaited(r.src)))
  /\ dlog' = IF r.src = "destroy"
             THEN [dlog EXCEPT ![r.d].st = IF ok THEN "resolved" ELSE "rejected"]
             ELSE dlog
  /\ burst' = 0
  /\ UNCHANGED <<opts, queue, timer, immediates, nextId, calls, passed, discarded>>

(***************************************************************************)
(* The BatchManager on its own, with any onFlush callback.                 *)
(***************************************************************************)
NoNotifier ==
  /\ cfg = [batchEnabled |-> TRUE, idempotencyEnabled |-> FALSE, keyFn |-> FALSE,
            defaultWebhook |-> TRUE]
  /\ cache = [k \in {} |-> 0]
  /\ cleanupTimer = FALSE
  /\ now = 0
  /\ sends = {}
  /\ itemErr = {}
  /\ ndestroy = {}
  /\ delivered = [k \in Keys |-> 0]

InitBM == BatchManager_constructor /\ NoNotifier /\ Unobserved /\ lastOp = "new"

NextBM ==
  \/ /\ nextId <= MaxItems
     /\ \E wh \in WebhookNames : BatchManager_add(Payload(nextId, "", FALSE), wh)
     /\ lastOp' = "add"
     /\ UNCHANGED <<nVars, xVars>>
  \/ BatchManager_manualFlush(OnFlushOutcomes) /\ lastOp' = "flush" /\ UNCHANGED <<nVars, xVars>>
  \/ BatchManager_immediate(OnFlushOutcomes) /\ lastOp' = "immediate" /\ UNCHANGED <<nVars, xVars>>
  \/ BatchManager_startTimer(OnFlushOutcomes) /\ lastOp' = "tick" /\ UNCHANGED <<nVars, xVars>>
  \/ BatchManager_destroy(OnFlushOutcomes) /\ lastOp' = "destroy" /\ UNCHANGED <<nVars, xVars>>
  \/ /\ \E r \in runs, ok \in BOOLEAN : BatchManager_onFlushSettled(r, ok)
     /\ lastOp' = "settled"
     /\ UNCHANGED <<nVars, xVars>>

SpecBM == InitBM /\ [][NextBM]_vars

(***************************************************************************)
(* The BatchManager that is never destroyed: the interval keeps firing and *)
(* every promise onFlush returns settles (an onFlush that throws has       *)
(* terminated already).                                                    *)
(***************************************************************************)
BMAdd ==
  /\ nextId <= MaxItems
  /\ \E wh \in WebhookNames : BatchManager_add(Payload(nextId, "", FALSE), wh)
  /\ lastOp' = "add"
  /\ UNCHANGED <<nVars, xVars>>

BMFlush == BatchManager_manualFlush(OnFlushOutcomes) /\ lastOp' = "flush" /\ UNCHANGED <<nVars, xVars>>

BMImmediate == BatchManager_immediate(OnFlushOutcomes) /\ lastOp' = "immediate" /\ UNCHANGED <<nVars, xVars>>

BMTick == BatchManager_startTimer(OnFlushOutcomes) /\ lastOp' = "tick" /\ UNCHANGED <<nVars, xVars>>

BMSettled ==
  /\ \E r \in runs, ok \in BOOLEAN : BatchManager_onFlushSettled(r, ok)
  /\ lastOp' = "settled"
  /\ UNCHANGED <<nVars, xVars>>

NextBMLive == BMAdd \/ BMFlush \/ BMImmediate \/ BMTick \/ BMSettled

SpecBMLive == InitBM /\ [][NextBMLive]_vars /\ WF_vars(BMTick) /\ WF_vars(BMSettled)

(***************************************************************************)
(* IdempotencyCache                                                        *)
(***************************************************************************)

\* has(key): the value returned
IdempotencyCache_has(key) ==
  IF key \notin DOMAIN cache THEN FALSE
  ELSE IF now > cache[key] THEN FALSE
  ELSE TRUE

\* has(key) that renews the entry it finds
IdempotencyCache_hasEvicts_renews(key) ==
  IF key \in DOMAIN cache /\ now > cache[key]
  THEN [k \in DOMAIN cache \ {key} |-> cache[k]]
  ELSE IF key \in DOMAIN cache
       THEN [k \in DOMAIN cache |-> IF k = key THEN now + TtlMs ELSE cache[k]]
       ELSE cache

\* has(key): the map it leaves (an expired entry is deleted)
IdempotencyCache_hasEvicts(key) ==
  IF key \in DOMAIN cache /\ now > cache[key]
  THEN [k \in DOMAIN cache \ {key} |-> cache[k]]
  ELSE cache

\* set(key) that leaves the entry of a key that is already stored
IdempotencyCache_set_firstWins(c, key) ==
  [k \in DOMAIN c \cup {key} |-> IF k = key /\ k \notin DOMAIN c THEN now + TtlMs ELSE c[k]]

\* set(key) on map c
IdempotencyCache_set(c, key) ==
  [k \in DOMAIN c \cup {key} |-> IF k = key THEN now + TtlMs ELSE c[k]]

\* cleanup(), run by the interval of startCleanup()
IdempotencyCache_cleanup ==
  /\ cleanupTimer
  /\ cache' = [k \in {x \in DOMAIN cache : ~(now > cache[x])} |-> cache[k]]
  /\ UNCHANGED cleanupTimer

\* destroy()
IdempotencyCache_destroy ==
  /\ cleanupTimer' = FALSE
  /\ cache' = [k \in {} |-> 0]

(***************************************************************************)
(* ConfigManager                                                           *)
(***************************************************************************)

\* the names a webhook is configured or asked for with
WebhookKeys == {"errors", "Errors", "ERRORS", "reports", "Reports"}

\* name.toLowerCase()
ToLowerCase(name) ==
  IF name \in {"errors", "Errors", "ERRORS"} THEN "errors"
  ELSE IF name \in {"reports", "Reports"} THEN "reports"
  ELSE name

\* constructor(webhookConfig): loadFromEnv() stores CHAT_WEBHOOK_<NAME> under
\* the lower-cased name, the entries of webhookConfig are stored under their
\* names as given; at least one webhook is configured
ConfigManager_constructor ==
  /\ \E env \in SUBSET {"ERRORS", "REPORTS"}, given \in SUBSET {"errors", "Errors"} :
       webhooks = {IF n = "ERRORS" THEN "errors" ELSE "reports" : n \in env} \cup given
  /\ cfg \in [batchEnabled : {FALSE}, idempotencyEnabled : {FALSE}, keyFn : {FALSE},
              defaultWebhook : BOOLEAN]
  /\ cfg.defaultWebhook \/ webhooks # {}

\* getWebhook(name): the key of the webhook it returns, "default", or "throw"
ConfigManager_getWebhook(name) ==
  IF name = ""
  THEN IF ~cfg.defaultWebhook THEN "throw" ELSE "default"
  ELSE IF ToLowerCase(name) \notin webhooks
       THEN IF cfg.defaultWebhook THEN "default" ELSE "throw"
       ELSE ToLowerCase(name)

(***************************************************************************)
(* HttpClient                                                              *)
(***************************************************************************)

\* post(): what follows a failed attempt -- another attempt, or the throw after the loop
HttpClient_retries(attempt) == attempt < RetryMax

\* options.initialDelayMs (300 is the default)
InitialDelays == {1, 3, 300}

\* what one `await fetch(...)` / `await response.text()` of post() comes to: a
\* 2xx response, another response (response.ok false), or a rejection
FetchOutcomes == {"2xx", "non2xx", "network"}

\* constructor: options.timeoutMs is not read
HttpClient_constructor ==
  http \in [maxRetries : 0..MaxAttempts, initialDelayMs : InitialDelays, attempt : {0},
            phase : {"idle"}, log : {<<>>}, sleeps : {<<>>}, error : {0}]

\* a delay that grows by initialDelayMs per attempt
HttpClient_delay_linear(initialDelayMs, attempt) == initialDelayMs * attempt

\* the delay computed in the catch block of attempt `attempt`
HttpClient_delay(initialDelayMs, attempt) == initialDelayMs * 2 ^ (attempt - 1)

\* a loop that stops one attempt short
HttpClient_loop_short(h, a) ==
  IF a < h.maxRetries
  THEN [h EXCEPT !.attempt = a, !.phase = "fetch"]
  ELSE [h EXCEPT !.attempt = a, !.phase = "thrown"]

\* `for (attempt = ...; attempt <= this.maxRetries; ...)` entered with attempt = a:
\* the body starts its fetch, or the loop is left and post() throws lastError
HttpClient_loop(h, a) ==
  IF a <= h.maxRetries
  THEN [h EXCEPT !.attempt = a, !.phase = "fetch"]
  ELSE [h EXCEPT !.attempt = a, !.phase = "thrown"]

\* post(url, payload) is called
HttpClient_postCalled ==
  /\ http.phase = "idle"
  /\ http' = HttpClient_loop(http, 1)

\* the fetch of the attempt settles: return on 2xx; otherwise the catch block
\* keeps the error, and sleeps if attempt < maxRetries
HttpClient_fetchSettles(outcome) ==
  /\ http.phase = "fetch"
  /\ LET h == [http EXCEPT !.log = Append(@, outcome)] IN
     http' = IF outcome = "2xx" THEN [h EXCEPT !.phase = "returned"]
             ELSE IF http.attempt < http.maxRetries
             THEN [h EXCEPT !.error = http.attempt, !.phase = "sleep",
                            !.sleeps = Append(@, HttpClient_delay(http.initialDelayMs, http.attempt))]
             ELSE HttpClient_loop([h EXCEPT !.error = http.attempt], http.attempt + 1)

\* the setTimeout of sleep(delay) fires: attempt++ and the loop test
HttpClient_sleepEnds ==
  /\ http.phase = "sleep"
  /\ http' = HttpClient_loop(http, http.attempt + 1)

\* the destination never answers: fetch is called with neither a timeout nor an
\* abort signal, so its promise never settles
HttpClient_fetchHangs ==
  /\ http.phase = "fetch"
  /\ http' = [http EXCEPT !.phase = "hung"]

(***************************************************************************)
(* NotifierImpl                                                            *)
(***************************************************************************)

\* this.cache && this.schema.getIdempotencyKey
UsesCache == cfg.idempotencyEnabled /\ cfg.keyFn

\* this.batchManager is undefined: nothing is queued and no interval is live
NoBatchManager ==
  /\ opts = [size |-> 1, flushOnDestroy |-> TRUE]
  /\ queue = <<>>
  /\ flushing = FALSE
  /\ timer = FALSE
  /\ immediates = 0
  /\ runs = {}
  /\ nextId = 1
  /\ calls = 0
  /\ passed = [id \in {} |-> 0]
  /\ settled = {}
  /\ failed = {}
  /\ unhandled = FALSE
  /\ discarded = {}
  /\ dlog = <<>>
  /\ burst = 0

\* constructor. A key function on a notifier built without a cache is never
\* called, so that configuration is left to the one without either.
NotifierImpl_constructor ==
  /\ cfg \in [batchEnabled : BOOLEAN, idempotencyEnabled : BOOLEAN, keyFn : BOOLEAN,
              defaultWebhook : BOOLEAN]
  /\ cfg.keyFn => cfg.idempotencyEnabled
  /\ cache = [k \in {} |-> 0]
  /\ cleanupTimer = cfg.idempotencyEnabled
  /\ now = 0
  /\ sends = {}
  /\ itemErr = {}
  /\ ndestroy = {}
  /\ delivered = [k \in Keys |-> 0]
  /\ IF cfg.batchEnabled THEN BatchManager_constructor ELSE NoBatchManager

\* sendSingle: webhookName ?? this.schema.getWebhookName?.(payload), "" for undefined
NotifierImpl_resolvedWebhookName(item) ==
  IF item.webhookName # "" THEN item.webhookName
  ELSE IF schemaWebhook = Absent THEN "" ELSE schemaWebhook

\* sendSingle that calls schema.getWebhookName(payload) without the ?.
NotifierImpl_webhookUrl_required(item) ==
  IF item.webhookName = "" /\ schemaWebhook = Absent THEN "throw"
  ELSE ConfigManager_getWebhook(NotifierImpl_resolvedWebhookName(item))

\* sendSingle: the webhook config.getWebhook(resolvedWebhookName) returns, "throw" when it throws
NotifierImpl_webhookUrl(item) == ConfigManager_getWebhook(NotifierImpl_resolvedWebhookName(item))

\* sendSingle(payload, webhookName) up to its await: where it stops
NotifierImpl_sendSingle(item) ==
  IF item.payload.bad THEN "card"                                     \* buildCard throws
  ELSE IF NotifierImpl_webhookUrl(item) = "throw" THEN "webhook"
  ELSE "post"                                                         \* waits in httpClient.post

\* a sendSingle call waiting in httpClient.post(webhookUrl, card)
Send(item, direct) ==
  [payload |-> item.payload, attempt |-> 1, direct |-> direct, url |-> NotifierImpl_webhookUrl(item)]

\* sendBatch: the places of the batch its map() calls sendSingle for
NotifierImpl_sendBatch_calls(batch) == 1..Len(batch)

\* sendBatch whose map callback has no try/catch
NotifierImpl_sendBatch_noCatch(threw) == threw

\* sendBatch: whether the promise of an item rejects when its sendSingle threw
NotifierImpl_sendBatch_rejects(threw) == FALSE                        \* try/catch

\* sendBatch(batch) up to its await, for the onFlush invocation this step started (if any)
NotifierImpl_sendBatch ==
  IF runs' \subseteq runs
  THEN UNCHANGED <<sends, itemErr>>
  ELSE LET b == (CHOOSE r \in runs' \ runs : TRUE).batch
           called == NotifierImpl_sendBatch_calls(b)
       IN /\ sends' = sends \cup
               {Send(b[i], FALSE) : i \in {j \in called : NotifierImpl_sendSingle(b[j]) = "post"}}
          /\ itemErr' = itemErr \cup
               {b[i].payload.id : i \in {j \in called : /\ NotifierImpl_sendSingle(b[j]) # "post"
                                                        /\ NotifierImpl_sendBatch_rejects(TRUE)}}

\* notify() that awaits sendSingle also when a batchManager exists
NotifierImpl_notify_awaitsSend(key, bad, wh) ==
  LET payload == Payload(nextId, key, bad) IN
  /\ UsesCache \/ key = ""
  /\ bad => wh = ""
  /\ IF UsesCache /\ key # "" /\ IdempotencyCache_has(key)
     THEN /\ lastOp' = "duplicate"                                    \* already sent
          /\ UNCHANGED <<bmVars, bmHist, cfg, cache, cleanupTimer, now, sends, itemErr, ndestroy, delivered, oVars>>
     ELSE LET checked == IF UsesCache /\ key # "" THEN IdempotencyCache_hasEvicts(key) ELSE cache IN
          /\ nextId <= MaxNotify
          /\ IF FALSE
             THEN /\ BatchManager_add(payload, wh)
                  /\ cache' = IF UsesCache /\ key # "" THEN IdempotencyCache_set(checked, key) ELSE checked
                  /\ lastOp' = "queued"
                  /\ UNCHANGED <<sends, itemErr>>
             ELSE /\ cache' = checked
                  /\ IF NotifierImpl_sendSingle(BatchItem(payload, wh)) = "post"
                     THEN /\ sends' = sends \cup {Send(BatchItem(payload, wh), TRUE)}
                          /\ nextId' = nextId + 1
                          /\ lastOp' = "sending"
                     ELSE /\ lastOp' = "rejected"                     \* notify() rejects
                          /\ UNCHANGED <<sends, nextId>>
                  /\ UNCHANGED <<opts, queue, flushing, timer, immediates, runs, bmHist, itemErr>>
          /\ UNCHANGED <<cfg, cleanupTimer, now, ndestroy, delivered, oVars>>

\* notify(payload, webhookName) past the importance filter, for the first n
\* payloads that are accepted; key is what getIdempotencyKey(payload) returns
\* ("" when it is never called); the webhook name of a payload buildCard throws
\* on is never read
NotifierImpl_notify_acceptedUpTo(n, key, bad, wh) ==
  LET payload == Payload(nextId, key, bad) IN
  /\ UsesCache \/ key = ""
  /\ bad => wh = ""
  /\ IF UsesCache /\ key # "" /\ IdempotencyCache_has(key)
     THEN /\ lastOp' = "duplicate"                                    \* already sent
          /\ cache' = IdempotencyCache_hasEvicts(key)                  \* has() of a live entry
          /\ UNCHANGED <<bmVars, bmHist, cfg, cleanupTimer, now, sends, itemErr, ndestroy, delivered, oVars>>
     ELSE LET checked == IF UsesCache /\ key # "" THEN IdempotencyCache_hasEvicts(key) ELSE cache IN
          /\ nextId <= n
          /\ IF cfg.batchEnabled
             THEN /\ BatchManager_add(payload, wh)
                  /\ cache' = IF UsesCache /\ key # "" THEN IdempotencyCache_set(checked, key) ELSE checked
                  /\ lastOp' = "queued"
                  /\ UNCHANGED <<sends, itemErr>>
             ELSE /\ cache' = checked
                  /\ IF NotifierImpl_sendSingle(BatchItem(payload, wh)) = "post"
                     THEN /\ sends' = sends \cup {Send(BatchItem(payload, wh), TRUE)}
                          /\ nextId' = nextId + 1
                          /\ lastOp' = "sending"
                     ELSE /\ lastOp' = "rejected"                     \* notify() rejects
                          /\ UNCHANGED <<sends, nextId>>
                  /\ UNCHANGED <<opts, queue, flushing, timer, immediates, runs, bmHist, itemErr>>
          /\ UNCHANGED <<cfg, cleanupTimer, now, ndestroy, delivered, oVars>>

\* notify(payload, webhookName) past the importance filter, for the first
\* MaxNotify payloads that are accepted
NotifierImpl_notify_accepted(key, bad, wh) ==
  NotifierImpl_notify_acceptedUpTo(MaxNotify, key, bad, wh)

\* the values of a payload's event, type and status fields
EventValues == {Absent, "", "PROCESSING", "PROCESSED"}

EventFields == [event : EventValues, type : {Absent, "PROCESSING"}, status : {Absent, "PROCESSING"}]

\* extractEvent: p.event ?? p.type ?? p.status (?? skips only null and undefined)
NotifierImpl_extractEvent(p) ==
  IF p.event # Absent THEN p.event ELSE IF p.type # Absent THEN p.type ELSE p.status

\* `if (event && ...)`: undefined and the empty string are falsy
Truthy(v) == v # Absent /\ v # ""

\* TombamentoSchema.isImportantEvent: event !== 'PROCESSING'
TombamentoSchema_isImportantEvent(event) == event # "PROCESSING"

\* a filter that does not look at the level
NotifierImpl_drops_anyLevel(p) ==
  /\ schemaFilter
  /\ Truthy(NotifierImpl_extractEvent(p))
  /\ ~TombamentoSchema_isImportantEvent(NotifierImpl_extractEvent(p))

\* the importance filter at the head of notify(): TRUE when the payload is dropped
NotifierImpl_drops(p) ==
  /\ level = "important" /\ schemaFilter
  /\ Truthy(NotifierImpl_extractEvent(p))
  /\ ~TombamentoSchema_isImportantEvent(NotifierImpl_extractEvent(p))

\* notify(payload, webhookName); p holds the payload's event, type and status
NotifierImpl_notify(p, key, bad, wh) ==
  /\ seen' = p
  /\ IF NotifierImpl_drops(p)
     THEN /\ lastOp' = "filtered"                                     \* return
          /\ UNCHANGED <<bmVars, bmHist, nVars, oVars>>
     ELSE NotifierImpl_notify_accepted(key, bad, wh)

\* notify() with a catch around `await this.sendSingle(...)`
NotifierImpl_notify_swallows(ok) == "resolved"

\* notify() without batching: how its promise settles when sendSingle returned
\* (ok) or threw the error of post -- `await this.sendSingle(...)` has no catch
NotifierImpl_notify_settles(ok) == IF ok THEN "resolved" ELSE "rejected"

\* the promises of notify() after the post of send s ended (ok) or threw
NotifierImpl_notify_ends(s, ok) ==
  IF s.direct
  THEN notifyEnded \cup {[id |-> s.payload.id, how |-> NotifierImpl_notify_settles(ok)]}
  ELSE notifyEnded

\* notify(payload, webhookName) for the first n payloads that are accepted
NotifierImpl_notify_upTo(n, p, key, bad, wh) ==
  /\ seen' = p
  /\ IF NotifierImpl_drops(p)
     THEN /\ lastOp' = "filtered"                                     \* return
          /\ UNCHANGED <<bmVars, bmHist, nVars, oVars>>
     ELSE NotifierImpl_notify_acceptedUpTo(n, key, bad, wh)

\* httpClient.post: one attempt of send s ends; what follows in post, sendSingle
\* and, for a send of notify(), in notify
HttpClient_post(s, ok) ==
  /\ s \in sends
  /\ IF ok
     THEN /\ sends' = sends \ {s}
          /\ cache' = IF UsesCache /\ s.payload.key # ""
                      THEN IdempotencyCache_set(cache, s.payload.key) ELSE cache
          /\ delivered' = IF s.payload.key \in Keys
                          THEN [delivered EXCEPT ![s.payload.key] = @ + 1] ELSE delivered
          /\ notifyEnded' = NotifierImpl_notify_ends(s, TRUE)
          /\ lastOp' = "event"
          /\ UNCHANGED itemErr
     ELSE IF HttpClient_retries(s.attempt)
     THEN /\ sends' = (sends \ {s}) \cup {[s EXCEPT !.attempt = @ + 1]}
          /\ lastOp' = "event"
          /\ UNCHANGED <<cache, delivered, itemErr, notifyEnded>>
     ELSE /\ sends' = sends \ {s}                                 \* post throws after the loop
          /\ itemErr' = IF ~s.direct /\ NotifierImpl_sendBatch_rejects(TRUE)
                        THEN itemErr \cup {s.payload.id} ELSE itemErr
          /\ notifyEnded' = NotifierImpl_notify_ends(s, FALSE)
          /\ lastOp' = "postFailed"
          /\ UNCHANGED <<cache, delivered>>
  /\ UNCHANGED <<bmVars, bmHist, cfg, cleanupTimer, now, ndestroy, callbacks, ret, http, level,
                 schemaFilter, webhooks, schemaWebhook, destroyed, seen>>

\* the promise of sendBatch (Promise.all) settles, and with it onFlush and flush()
NotifierImpl_onFlushSettled(r) ==
  LET rejected == Ids(r.batch) \cap itemErr # {}
      waiting == \E s \in sends : ~s.direct /\ s.payload.id \in Ids(r.batch)
  IN /\ r \in runs
     /\ rejected \/ ~waiting
     /\ BatchManager_onFlushSettled(r, ~rejected)
     /\ lastOp' = "event"
     /\ UNCHANGED <<nVars, xVars>>

\* flush()
NotifierImpl_flush ==
  /\ IF cfg.batchEnabled
     THEN BatchManager_manualFlush({"async"}) /\ NotifierImpl_sendBatch
     ELSE UNCHANGED <<bmVars, bmHist, sends, itemErr>>
  /\ lastOp' = "flush"
  /\ UNCHANGED <<cfg, cache, cleanupTimer, now, ndestroy, delivered, xVars>>

\* the callbacks the BatchManager of the notifier handed to setImmediate and setInterval
NotifierImpl_immediate ==
  /\ BatchManager_immediate({"async"}) /\ NotifierImpl_sendBatch
  /\ lastOp' = "event"
  /\ UNCHANGED <<cfg, cache, cleanupTimer, now, ndestroy, delivered, xVars>>

NotifierImpl_tick ==
  /\ BatchManager_startTimer({"async"}) /\ NotifierImpl_sendBatch
  /\ lastOp' = "event"
  /\ UNCHANGED <<cfg, cache, cleanupTimer, now, ndestroy, delivered, xVars>>

\* destroy() up to its await (without a batchManager: all of it)
NotifierImpl_destroy ==
  /\ IF cfg.batchEnabled
     THEN /\ Len(dlog) < MaxNotifierDestroy
          /\ BatchManager_destroy({"async"}) /\ NotifierImpl_sendBatch
          /\ ndestroy' = ndestroy \cup {Len(dlog')}
          /\ UNCHANGED <<cache, cleanupTimer>>
     ELSE /\ IF cfg.idempotencyEnabled THEN IdempotencyCache_destroy
             ELSE UNCHANGED <<cache, cleanupTimer>>
          /\ UNCHANGED <<bmVars, bmHist, sends, itemErr, ndestroy>>
  /\ destroyed' = TRUE
  /\ lastOp' = "destroy"
  /\ UNCHANGED <<cfg, now, delivered, callbacks, ret, http, level, schemaFilter, webhooks,
                 schemaWebhook, seen, notifyEnded>>

\* destroy() after `await this.batchManager.destroy()`
NotifierImpl_destroyResumes(d) ==
  /\ d \in ndestroy
  /\ dlog[d].st = "resolved"
  /\ ndestroy' = ndestroy \ {d}
  /\ IF cfg.idempotencyEnabled THEN IdempotencyCache_destroy
     ELSE UNCHANGED <<cache, cleanupTimer>>
  /\ lastOp' = "event"
  /\ UNCHANGED <<bmVars, bmHist, cfg, now, sends, itemErr, delivered, xVars>>

\* the interval of the cache
NotifierImpl_cleanup ==
  /\ IdempotencyCache_cleanup
  /\ lastOp' = "event"
  /\ UNCHANGED <<bmVars, bmHist, cfg, now, sends, itemErr, ndestroy, delivered, xVars>>

\* time passes; Date.now() is read by the cache only, against the expiry of the
\* entries it holds
Tick ==
  /\ DOMAIN cache # {}
  /\ now < MaxTime
  /\ now' = now + 1
  /\ lastOp' = "event"
  /\ UNCHANGED <<bmVars, bmHist, cfg, cache, cleanupTimer, sends, itemErr, ndestroy, delivered, xVars>>

Init == NotifierImpl_constructor /\ Unobserved /\ lastOp = "new"

Next ==
  \/ \E key \in Keys \cup {""}, bad \in BOOLEAN, wh \in WebhookNames :
       NotifierImpl_notify(NoEvent, key, bad, wh)
  \/ \E s \in sends, ok \in BOOLEAN : HttpClient_post(s, ok)
  \/ \E r \in runs : NotifierImpl_onFlushSettled(r)
  \/ NotifierImpl_flush
  \/ NotifierImpl_immediate
  \/ NotifierImpl_tick
  \/ NotifierImpl_destroy
  \/ \E d \in ndestroy : NotifierImpl_destroyResumes(d)
  \/ NotifierImpl_cleanup
  \/ Tick

Spec == Init /\ [][Next]_vars

(***************************************************************************)
(* The notifier whose callers stop at destroy(): once destroy() has been   *)
(* called there is no further notify() and no further flush(). What was    *)
(* started before -- sends in flight, batches in progress, setImmediate    *)
(* callbacks -- runs on.                                                   *)
(***************************************************************************)

\* destroy() has been called
Destroyed == destroyed

NextTeardown ==
  \/ /\ ~Destroyed
     /\ \E key \in Keys \cup {""}, bad \in BOOLEAN, wh \in WebhookNames :
          NotifierImpl_notify(NoEvent, key, bad, wh)
  \/ \E s \in sends, ok \in BOOLEAN : HttpClient_post(s, ok)
  \/ \E r \in runs : NotifierImpl_onFlushSettled(r)
  \/ ~Destroyed /\ NotifierImpl_flush
  \/ NotifierImpl_immediate
  \/ NotifierImpl_tick
  \/ NotifierImpl_destroy
  \/ \E d \in ndestroy : NotifierImpl_destroyResumes(d)
  \/ NotifierImpl_cleanup
  \/ Tick

SpecTeardown == Init /\ [][NextTeardown]_vars

(***************************************************************************)
(* The notifier with batching, the cache and a key function, used for a    *)
(* third payload by a caller that awaits destroy(): no notify() starts     *)
(* while a destroy() is suspended at its await. Time stands still, so that *)
(* everything happens within the TTL of the first notify.                  *)
(***************************************************************************)
MaxRequeueNotify == 3

InitRequeue ==
  /\ NotifierImpl_constructor
  /\ cfg.batchEnabled /\ cfg.idempotencyEnabled /\ cfg.keyFn /\ cfg.defaultWebhook
  /\ Unobserved
  /\ lastOp = "new"

NextRequeue ==
  \/ /\ ndestroy = {}
     /\ \E key \in Keys \cup {""} :
          NotifierImpl_notify_upTo(MaxRequeueNotify, NoEvent, key, FALSE, "")
  \/ \E s \in sends, ok \in BOOLEAN : HttpClient_post(s, ok)
  \/ \E r \in runs : NotifierImpl_onFlushSettled(r)
  \/ NotifierImpl_flush
  \/ NotifierImpl_immediate
  \/ NotifierImpl_tick
  \/ NotifierImpl_destroy
  \/ \E d \in ndestroy : NotifierImpl_destroyResumes(d)

SpecRequeue == InitRequeue /\ [][NextRequeue]_vars

(***************************************************************************)
(* The notifier under every level and schema, with payloads that carry     *)
(* event, type and status fields, until destroy().                         *)
(***************************************************************************)
InitLevel ==
  /\ NotifierImpl_constructor
  /\ cfg.idempotencyEnabled /\ cfg.keyFn /\ cfg.defaultWebhook
  /\ opts.flushOnDestroy
  /\ level \in {"all", "important"}
  /\ schemaFilter \in BOOLEAN
  /\ webhooks = {"errors"} /\ schemaWebhook = Absent /\ destroyed = FALSE /\ notifyEnded = {}
  /\ seen = NoEvent
  /\ callbacks = {}
  /\ ret = [key |-> "", val |-> FALSE]
  /\ http = [maxRetries |-> 0, initialDelayMs |-> 0, attempt |-> 0, phase |-> "idle",
             log |-> <<>>, sleeps |-> <<>>, error |-> 0]
  /\ lastOp = "new"

NextLevel ==
  \/ \E p \in EventFields, key \in Keys \cup {""} : NotifierImpl_notify(p, key, FALSE, "")
  \/ \E s \in sends, ok \in BOOLEAN : HttpClient_post(s, ok)
  \/ \E r \in runs : NotifierImpl_onFlushSettled(r)
  \/ NotifierImpl_flush
  \/ NotifierImpl_immediate
  \/ NotifierImpl_tick

SpecLevel == InitLevel /\ [][NextLevel]_vars

(***************************************************************************)
(* The notifier at level 'important' under every schema: with or without   *)
(* isImportantEvent, getIdempotencyKey and getWebhookName. A default       *)
(* webhook is configured and no notify() call names a webhook.             *)
(***************************************************************************)
SchemaWebhooks == {Absent, "", "errors"}

InitSchema ==
  /\ NotifierImpl_constructor
  /\ cfg.idempotencyEnabled /\ cfg.defaultWebhook
  /\ opts.flushOnDestroy
  /\ level = "important"
  /\ schemaFilter \in BOOLEAN
  /\ schemaWebhook \in SchemaWebhooks /\ destroyed = FALSE /\ notifyEnded = {}
  /\ webhooks = {"errors"}
  /\ seen = NoEvent
  /\ callbacks = {}
  /\ ret = [key |-> "", val |-> FALSE]
  /\ http = [maxRetries |-> 0, initialDelayMs |-> 0, attempt |-> 0, phase |-> "idle",
             log |-> <<>>, sleeps |-> <<>>, error |-> 0]
  /\ lastOp = "new"

SpecSchema == InitSchema /\ [][NextLevel]_vars

(***************************************************************************)
(* The HttpClient on its own: one post() call, attempt by attempt.         *)
(***************************************************************************)
InitHttp ==
  /\ HttpClient_constructor
  /\ NoBatchManager /\ NoNotifier
  /\ callbacks = {} /\ ret = [key |-> "", val |-> FALSE]
  /\ level = "all" /\ schemaFilter = FALSE /\ seen = NoEvent
  /\ webhooks = {"errors"} /\ schemaWebhook = Absent /\ destroyed = FALSE /\ notifyEnded = {}
  /\ lastOp = "new"

NextHttp ==
  \/ HttpClient_postCalled /\ lastOp' = "post"
       /\ UNCHANGED <<bmVars, bmHist, nVars, callbacks, ret, level, schemaFilter, seen, webhooks, schemaWebhook, destroyed, notifyEnded>>
  \/ /\ \E outcome \in FetchOutcomes : HttpClient_fetchSettles(outcome)
     /\ lastOp' = "fetch" /\ UNCHANGED <<bmVars, bmHist, nVars, callbacks, ret, level, schemaFilter, seen, webhooks, schemaWebhook, destroyed, notifyEnded>>
  \/ HttpClient_sleepEnds /\ lastOp' = "sleep"
       /\ UNCHANGED <<bmVars, bmHist, nVars, callbacks, ret, level, schemaFilter, seen, webhooks, schemaWebhook, destroyed, notifyEnded>>
  \/ HttpClient_fetchHangs /\ lastOp' = "hang"
       /\ UNCHANGED <<bmVars, bmHist, nVars, callbacks, ret, level, schemaFilter, seen, webhooks, schemaWebhook, destroyed, notifyEnded>>

\* every promise that can settle does, and every timer that was set fires
SpecHttp == InitHttp /\ [][NextHttp]_vars /\ WF_vars(NextHttp)

(***************************************************************************)
(* The HttpClient the notifier builds from its retry options, and one      *)
(* post() call on it.                                                      *)
(***************************************************************************)

\* a numeric option that was not given (undefined)
Unset == -1

\* options.retryMax and options.retryBaseMs of the notifier
RetryOptions == [retryMax : {Unset} \cup 1..MaxAttempts, retryBaseMs : {Unset} \cup InitialDelays]

\* the HttpClientOptions the constructor of NotifierImpl passes (timeoutMs aside)
NotifierImpl_httpClientOptions(options) ==
  [maxRetries |-> IF options.retryMax = Unset THEN 3 ELSE options.retryMax,
   initialDelayMs |-> Unset]

\* new HttpClient(o)
HttpClient_new(o) ==
  [maxRetries |-> IF o.maxRetries = Unset THEN 3 ELSE o.maxRetries,
   initialDelayMs |-> IF o.initialDelayMs = Unset THEN 300 ELSE o.initialDelayMs,
   attempt |-> 0, phase |-> "idle", log |-> <<>>, sleeps |-> <<>>, error |-> 0]

InitRetry ==
  /\ \E options \in RetryOptions :
       /\ ret = [key |-> options, val |-> "constructed"]
       /\ http = HttpClient_new(NotifierImpl_httpClientOptions(options))
  /\ NoBatchManager /\ NoNotifier
  /\ callbacks = {}
  /\ level = "all" /\ schemaFilter = FALSE /\ seen = NoEvent
  /\ webhooks = {"errors"} /\ schemaWebhook = Absent /\ destroyed = FALSE /\ notifyEnded = {}
  /\ lastOp = "new"

SpecRetry == InitRetry /\ [][NextHttp]_vars

(***************************************************************************)
(* The IdempotencyCache on its own, called with any keys at any times.     *)
(***************************************************************************)

\* the keys the cache is called with
CacheKeys == {"k1", "k2"}

\* constructor: an empty map, startCleanup()
IdempotencyCache_constructor ==
  /\ cache = [k \in {} |-> 0]
  /\ cleanupTimer = TRUE

InitCache ==
  /\ IdempotencyCache_constructor
  /\ now = 0
  /\ cfg = [batchEnabled |-> FALSE, idempotencyEnabled |-> TRUE, keyFn |-> TRUE,
            defaultWebhook |-> TRUE]
  /\ sends = {} /\ itemErr = {} /\ ndestroy = {} /\ delivered = [k \in Keys |-> 0]
  /\ NoBatchManager
  /\ Unobserved
  /\ lastOp = "new"

NextCache ==
  \/ /\ \E key \in CacheKeys :
          /\ ret' = [key |-> key, val |-> IdempotencyCache_has(key)]
          /\ cache' = IdempotencyCache_hasEvicts(key)
     /\ lastOp' = "has"
     /\ UNCHANGED <<bmVars, bmHist, cfg, cleanupTimer, now, sends, itemErr, ndestroy, delivered,
                    callbacks, http, level, schemaFilter, seen, webhooks, schemaWebhook, destroyed, notifyEnded>>
  \/ /\ \E key \in CacheKeys :
          /\ cache' = IdempotencyCache_set(cache, key)
          /\ lastOp' = IF key \in DOMAIN cache THEN "overwrite" ELSE "set"
     /\ UNCHANGED <<bmVars, bmHist, cfg, cleanupTimer, now, sends, itemErr, ndestroy, delivered, xVars>>
  \/ /\ IdempotencyCache_cleanup
     /\ lastOp' = "cleanup"
     /\ UNCHANGED <<bmVars, bmHist, cfg, now, sends, itemErr, ndestroy, delivered, xVars>>
  \/ /\ IdempotencyCache_destroy
     /\ lastOp' = "destroy"
     /\ UNCHANGED <<bmVars, bmHist, cfg, now, sends, itemErr, ndestroy, delivered, xVars>>
  \/ Tick

SpecCache == InitCache /\ [][NextCache]_vars

(***************************************************************************)
(* The ConfigManager on its own, asked for any name.                       *)
(***************************************************************************)
InitConfig ==
  /\ ConfigManager_constructor
  /\ cache = [k \in {} |-> 0] /\ cleanupTimer = FALSE /\ now = 0
  /\ sends = {} /\ itemErr = {} /\ ndestroy = {} /\ delivered = [k \in Keys |-> 0]
  /\ NoBatchManager
  /\ level = "all" /\ schemaFilter = FALSE /\ seen = NoEvent /\ schemaWebhook = Absent /\ destroyed = FALSE /\ notifyEnded = {}
  /\ callbacks = {}
  /\ ret = [key |-> "", val |-> ""]
  /\ http = [maxRetries |-> 0, initialDelayMs |-> 0, attempt |-> 0, phase |-> "idle",
             log |-> <<>>, sleeps |-> <<>>, error |-> 0]
  /\ lastOp = "new"

NextConfig ==
  /\ \E name \in WebhookKeys \cup {"", "other"} :
       ret' = [key |-> name, val |-> ConfigManager_getWebhook(name)]
  /\ lastOp' = "getWebhook"
  /\ UNCHANGED <<bmVars, bmHist, nVars, callbacks, http, level, schemaFilter, seen, webhooks, schemaWebhook, destroyed, notifyEnded>>

SpecConfig == InitConfig /\ [][NextConfig]_vars

(***************************************************************************)
(* truncateMessage (src/src/utils/crypto.ts), applied to any text and any  *)
(* maximum length. A text is a sequence of UTF-16 code units.              *)
(***************************************************************************)

\* the longest text and the largest maxLength tried
MaxTextLen == 3
MaxMaxLength == 4

\* the smallest maxLength tried
MinMaxLength == -1

\* the code units of a text, and the one of the ellipsis
CodeUnits == {"a", "b"}
Ellipsis == "U+2026"

Texts == UNION {[1..n -> CodeUnits] : n \in 0..MaxTextLen}

\* truncateMessage that keeps maxLength code units of the text before the ellipsis
truncateMessage_keepsMax(text, maxLength) ==
  IF Len(text) <= maxLength THEN text
  ELSE IF maxLength <= 1 THEN <<Ellipsis>>
  ELSE SubSeq(text, 1, maxLength) \o <<Ellipsis>>

\* truncateMessage(text, maxLength)
truncateMessage(text, maxLength) ==
  IF Len(text) <= maxLength THEN text
  ELSE IF maxLength <= 1 THEN <<Ellipsis>>
  ELSE SubSeq(text, 1, maxLength - 1) \o <<Ellipsis>>

InitTruncate ==
  /\ ret \in [key : [text : Texts, maxLength : MinMaxLength..MaxMaxLength], val : {<<>>}]
  /\ cfg = [batchEnabled |-> FALSE, idempotencyEnabled |-> FALSE, keyFn |-> FALSE,
            defaultWebhook |-> TRUE]
  /\ cache = [k \in {} |-> 0] /\ cleanupTimer = FALSE /\ now = 0
  /\ sends = {} /\ itemErr = {} /\ ndestroy = {} /\ delivered = [k \in Keys |-> 0]
  /\ NoBatchManager
  /\ level = "all" /\ schemaFilter = FALSE /\ seen = NoEvent
  /\ webhooks = {"errors"} /\ schemaWebhook = Absent /\ destroyed = FALSE /\ notifyEnded = {}
  /\ callbacks = {}
  /\ http = [maxRetries |-> 0, initialDelayMs |-> 0, attempt |-> 0, phase |-> "idle",
             log |-> <<>>, sleeps |-> <<>>, error |-> 0]
  /\ lastOp = "new"

NextTruncate ==
  /\ lastOp = "new"
  /\ ret' = [ret EXCEPT !.val = truncateMessage(ret.key.text, ret.key.maxLength)]
  /\ lastOp' = "truncateMessage"
  /\ UNCHANGED <<bmVars, bmHist, nVars, callbacks, http, level, schemaFilter, seen, webhooks, schemaWebhook, destroyed, notifyEnded>>

SpecTruncate == InitTruncate /\ [][NextTruncate]_vars

(***************************************************************************)
(* TombamentoSchema.getIdempotencyKey, applied to two payloads. A string   *)
(* is a sequence of characters; bucket and object are any strings.         *)
(***************************************************************************)
MaxNameLen == 2

\* the characters of a bucket or object name: a letter and the separator
NameChars == {"a", ":"}

Names == UNION {[1..n -> NameChars] : n \in 1..MaxNameLen}

\* event, bucket, object and counts?.processed (Unset when counts or processed is undefined)
TombamentoPayloads ==
  [event : {"UPLOADED", "PROCESSED"}, bucket : Names, object : Names, processed : {Unset, 0, 1}]

\* Number.prototype.toString of 0 and 1
toString(n) == IF n = 0 THEN <<"0">> ELSE <<"1">>

\* [a, b, c, d].join(':')
Join(a, b, c, d) == a \o <<":">> \o b \o <<":">> \o c \o <<":">> \o d

\* sha1(data): the digest stands for the data it was computed from (no two
\* strings are taken to collide)
sha1(data) == <<"sha1">> \o data

\* getIdempotencyKey(payload); an event name is one symbol
TombamentoSchema_getIdempotencyKey(payload) ==
  sha1(Join(<<payload.event>>, payload.bucket, payload.object,
            IF payload.processed = Unset THEN <<>>                  \* ?.toString() || ''
            ELSE toString(payload.processed)))

InitKey ==
  /\ NoBatchManager /\ NoNotifier
  /\ level = "all" /\ schemaFilter = FALSE /\ seen = NoEvent /\ schemaWebhook = Absent /\ destroyed = FALSE /\ notifyEnded = {}
  /\ webhooks = {}
  /\ callbacks = {}
  /\ ret \in [key : TombamentoPayloads \X TombamentoPayloads, val : {<<>>}]
  /\ http = [maxRetries |-> 0, initialDelayMs |-> 0, attempt |-> 0, phase |-> "idle",
             log |-> <<>>, sleeps |-> <<>>, error |-> 0]
  /\ lastOp = "new"

NextKey ==
  /\ lastOp = "new"
  /\ ret' = [ret EXCEPT !.val = <<TombamentoSchema_getIdempotencyKey(ret.key[1]),
                                  TombamentoSchema_getIdempotencyKey(ret.key[2])>>]
  /\ lastOp' = "getIdempotencyKey"
  /\ UNCHANGED <<bmVars, bmHist, nVars, callbacks, http, level, schemaFilter, seen, webhooks, schemaWebhook, destroyed, notifyEnded>>

SpecKey == InitKey /\ [][NextKey]_vars

(***************************************************************************)
(* Properties of the BatchManager (checked under SpecBM).                  *)
(***************************************************************************)

\* this step invokes onFlush exactly once, with exactly the items of q, for src
HandsOver(q, src) ==
  /\ calls' = calls + 1
  /\ passed' = [id \in DOMAIN passed \cup Ids(q) |->
                  (IF id \in DOMAIN passed THEN passed[id] ELSE 0)
                  + (IF id \in Ids(q) THEN 1 ELSE 0)]
  /\ \/ \E r \in runs' : runs' = runs \cup {r} /\ r \notin runs /\ r.batch = q /\ r.src = src
     \/ runs' = runs /\ failed' = failed \cup Ids(q)

\* this step does not invoke onFlush
NoOnFlush == calls' = calls /\ passed' = passed /\ runs' \subseteq runs

\* number of places of the live queue that hold item id
InQueue(id) == Cardinality({i \in 1..Len(queue) : queue[i].payload.id = id})

\* number of batches handed to onFlush that held item id
InBatches(id) == IF id \in DOMAIN passed THEN passed[id] ELSE 0

\* C2: at most one onFlush invocation is in progress at any time, and a flush()
\* called while one is in progress or while the queue is empty invokes no
\* onFlush and leaves the queue as it is.
C2_OneFlushAtATime ==
  /\ [](Cardinality(runs) <= 1)
  /\ [][(lastOp' = "flush" /\ (flushing \/ Len(queue) = 0))
          => (NoOnFlush /\ queue' = queue)]_vars

C2_Witness == lastOp = "flush" /\ Cardinality(runs) = 1 /\ Len(queue) > 0

\* C3: every item ever added is in exactly one place: once in the live queue,
\* in exactly one batch handed to onFlush, or dropped by a destroy() with
\* flushOnDestroy = false; the batches in progress share no item, and an add()
\* made while a flush is in progress leaves the batch in progress as it is and
\* puts the item at the tail of the live queue.
C3_NoLossNoDuplicate ==
  /\ [](\A id \in 1..(nextId - 1) :
          /\ InQueue(id) + InBatches(id) + (IF id \in discarded THEN 1 ELSE 0) = 1
          /\ (id \in discarded => ~opts.flushOnDestroy))
  /\ [](\A r1, r2 \in runs : r1 # r2 => Ids(r1.batch) \cap Ids(r2.batch) = {})
  /\ [][(lastOp' = "add" /\ flushing)
          => (runs' = runs /\ NoOnFlush /\ Len(queue') = Len(queue) + 1
              /\ queue'[Len(queue')].payload.id = nextId
              /\ \A i \in 1..Len(queue) : queue'[i] = queue[i])]_vars

C3_Witness ==
  /\ lastOp = "add" /\ flushing /\ Len(queue) > 0
  /\ \E r \in runs : Ids(r.batch) \cap Ids(queue) = {} /\ Len(r.batch) > 0

\* C4: with flushOnDestroy = true, once the promise of a destroy() call has
\* resolved, every item that was queued when it was called has been handed to
\* an onFlush invocation that has completed.
C4_DestroyFlushesAll ==
  opts.flushOnDestroy =>
    \A i \in 1..Len(dlog) : dlog[i].st = "resolved" => dlog[i].snap \subseteq settled

\* C5: destroy() with flushOnDestroy = false invokes no onFlush and leaves the
\* queue empty; destroy() with flushOnDestroy = true, k > 0 queued items and no
\* flush in progress invokes onFlush exactly once, with exactly those items.
C5_DestroySemantics ==
  [][Len(dlog') = Len(dlog) + 1 =>
       /\ (~opts.flushOnDestroy => NoOnFlush /\ queue' = <<>>)
       /\ (opts.flushOnDestroy /\ Len(queue) > 0 /\ ~flushing
             => HandsOver(queue, "destroy") /\ queue' = <<>>)]_vars

C5_Witness ==
  /\ lastOp = "destroy" /\ opts.flushOnDestroy
  /\ \E r \in runs : r.src = "destroy" /\ Len(r.batch) = 2

\* C6: once a destroy() call has resolved, no onFlush invocation begins from the
\* interval timer or from a setImmediate callback of add().
C6_NoFlushAfterDestroy ==
  [][((\E i \in 1..Len(dlog) : dlog[i].st = "resolved")
       /\ lastOp' \in {"tick", "immediate"}) => calls' = calls]_vars

\* C7: flushing is true exactly while an onFlush invocation is in progress (also
\* after an invocation that threw or rejected), so a flush() called with a
\* non-empty queue while none is in progress invokes onFlush.
C7_FlagReleased ==
  /\ [](flushing <=> runs # {})
  /\ [][(lastOp' = "flush" /\ runs = {} /\ Len(queue) > 0)
          => HandsOver(queue, "manual")]_vars

C7_Witness == failed # {} /\ lastOp = "flush" /\ flushing /\ runs # {}

\* C8: after exactly opts.size add() calls in a row that started on an empty
\* queue with no flush in progress, a setImmediate callback is pending, and
\* when it runs it invokes onFlush exactly once, with exactly those items in
\* the order they were added, and leaves the queue empty; this holds for every
\* such run of add() calls, also after an earlier size-triggered flush.
C8_SizeTrigger ==
  /\ [](burst = opts.size =>
          /\ immediates >= 1 /\ ~flushing /\ Len(queue) = opts.size
          /\ \A i \in 1..Len(queue) : queue[i].payload.id = nextId - opts.size - 1 + i)
  /\ [][(burst = opts.size /\ lastOp' = "immediate")
          => (HandsOver(queue, "size") /\ queue' = <<>>)]_vars

C8_Witness ==
  /\ lastOp = "immediate" /\ opts.size = 2 /\ settled # {}
  /\ \E r \in runs : r.src = "size" /\ Len(r.batch) = opts.size

\* C9: a timer tick on an empty queue invokes no onFlush; a tick on a non-empty
\* queue with no flush in progress invokes onFlush exactly once with all queued
\* items; a tick while a flush is in progress invokes none and leaves the queue.
C9_TimerTrigger ==
  [][lastOp' = "tick" =>
       /\ (Len(queue) = 0 => NoOnFlush)
       /\ (Len(queue) > 0 /\ ~flushing => HandsOver(queue, "timer") /\ queue' = <<>>)
       /\ (flushing => NoOnFlush /\ queue' = queue)]_vars

C9_Witness ==
  /\ lastOp = "tick"
  /\ \E r \in runs : r.src = "timer" /\ Len(r.batch) = 2

\* C23: every interval tick that finds the queue non-empty hands all items then
\* in the queue to onFlush in that tick, so no item waits longer than one
\* interval.
C23_TickHandsAll ==
  [][(lastOp' = "tick" /\ Len(queue) > 0)
       => (HandsOver(queue, "timer") /\ queue' = <<>>)]_vars

\* C24: no batch a size-triggered flush hands to onFlush holds more than
\* opts.size items.
C24_BatchAtMostSize ==
  \A r \in runs : r.src = "size" => Len(r.batch) <= opts.size

\* C27: a destroy() call that follows another, with no item queued that was
\* not already queued at the call before it, invokes no onFlush and leaves the
\* queue as it is.
C27_SecondDestroyNoOp ==
  [][(Len(dlog) >= 1 /\ Len(dlog') = Len(dlog) + 1 /\ Ids(queue) \subseteq dlog[Len(dlog)].snap)
       => (NoOnFlush /\ queue' = queue)]_vars

\* C29: no flush started by the interval timer or by a setImmediate callback
\* of add() ends in a rejection nobody handles, whatever onFlush does.
C29_BackgroundFailuresHandled == ~unhandled

\* C30: add() only appends: the step invokes no onFlush and leaves flushing
\* and the batches in progress as they are; when it brings the queue to
\* opts.size or above it leaves exactly one more setImmediate callback pending,
\* otherwise none; and the callback, when it runs, calls no add().
C30_AddNeverFlushesInline ==
  /\ [][lastOp' = "add" =>
          /\ NoOnFlush /\ flushing' = flushing /\ runs' = runs
          /\ queue' = Append(queue, queue'[Len(queue')])
          /\ immediates' = immediates + (IF Len(queue') >= opts.size THEN 1 ELSE 0)]_vars
  /\ [][lastOp' = "immediate" =>
          (nextId' = nextId /\ immediates' = immediates - 1 /\ Len(queue') <= Len(queue))]_vars

\* an add() reached the threshold and nothing was handed to onFlush yet
C30_Witness ==
  /\ lastOp = "add" /\ Len(queue) >= opts.size /\ opts.size = 2
  /\ immediates = 1 /\ calls = 0 /\ ~flushing

\* the items of q stand in the order they were added (ids count the add() calls)
InAddOrder(q) == \A i, j \in 1..Len(q) : i < j => q[i].payload.id < q[j].payload.id

\* C31: the queue and every batch handed to onFlush list their items in the
\* order they were added, a batch is the queue as it stood (payloads and
\* webhook names), and every item of an earlier batch was added before every
\* item of a later one.
C31_InsertionOrder ==
  /\ [](InAddOrder(queue) /\ \A r \in runs : InAddOrder(r.batch))
  /\ [][\A r \in runs' \ runs :
          /\ r.batch = queue
          /\ \A id \in DOMAIN passed : \A i \in 1..Len(r.batch) : id < r.batch[i].payload.id]_vars
  /\ [][\A id \in DOMAIN passed' \ DOMAIN passed : \A old \in DOMAIN passed : old < id]_vars

\* a batch of two items with different webhook names follows an earlier batch
C31_Witness ==
  /\ settled # {}
  /\ \E r \in runs : Len(r.batch) = 2 /\ r.batch[1].webhookName # r.batch[2].webhookName

\* C35: without destroy(), with an interval that keeps firing and onFlush
\* calls that terminate, every item in the queue is eventually handed to
\* onFlush -- also an item added during a flush whose size-triggered flush()
\* found the flush in progress and did nothing (checked under SpecBMLive).
C35_EveryItemHandedOver ==
  \A id \in 1..MaxItems : (InQueue(id) > 0) ~> (id \in DOMAIN passed)

\* the interval handed over a full batch whose size-triggered flush() calls
\* have all run: they ran during the earlier flush and did nothing
C35_Witness ==
  /\ lastOp = "tick" /\ immediates = 0 /\ flushing
  /\ \E r \in runs : r.src = "timer" /\ Len(r.batch) >= opts.size /\ Ids(r.batch) \cap settled = {}
  /\ settled # {}

\* C36: onFlush is never invoked with an empty batch. Every invocation, for a
\* manual, size, timer or destroy flush and whatever onFlush does, is made
\* with a queue of at least one item and hands over exactly that queue; no
\* batch in progress is empty.
C36_NoEmptyBatch ==
  /\ [](\A r \in runs : Len(r.batch) >= 1)
  /\ [][calls' # calls => /\ Len(queue) >= 1
                          /\ calls' = calls + 1
                          /\ \A id \in Ids(queue) : InBatches(id)' = InBatches(id) + 1
                          /\ \A r \in runs' \ runs : r.batch = queue]_vars

\* two add() calls each scheduled a size-triggered flush(); the first handed
\* both items over in the only onFlush call, which resolved, and the second
\* found the queue empty and invoked nothing
C36_Witness ==
  /\ lastOp = "immediate" /\ immediates = 0
  /\ ~flushing /\ runs = {} /\ Len(queue) = 0
  /\ calls = 1 /\ Cardinality(settled) = 2 /\ failed = {}
  /\ dlog = <<>>

\* the items added after batch b was drained
AddedSince(b) == {id \in 1..(nextId - 1) : \A x \in Ids(b) : id > x}

\* C37 (as stated): when the promise of onFlush rejects, the queue holds
\* exactly the items added since the batch was drained.
C37_QueueExactlyAddedSince ==
  [][\A r \in runs \ runs' : failed' # failed => Ids(queue') = AddedSince(r.batch)]_vars

\* C37 (amended): when onFlush fails the batch is not put back. The rejection leaves the
\* queue as it is, holding no item of the batch and exactly the items added
\* since the drain that no destroy() has discarded, and leaves flushing false;
\* an onFlush that throws leaves the queue empty and flushing false; and no
\* item of a failed batch is in the queue or handed to onFlush a second time.
C37_FailedBatchDropped ==
  /\ [][\A r \in runs \ runs' : failed' # failed =>
          /\ queue' = queue /\ ~flushing'
          /\ Ids(queue') \cap Ids(r.batch) = {}
          /\ Ids(queue') = AddedSince(r.batch) \ discarded]_vars
  /\ [][(failed' # failed /\ runs' = runs) => (queue' = <<>> /\ ~flushing')]_vars
  /\ [](\A id \in failed : InBatches(id) = 1 /\ InQueue(id) = 0)

\* the promise of the only onFlush call rejected while an item added during
\* the flush waits in the queue
C37_Witness ==
  /\ lastOp = "settled" /\ calls = 1 /\ failed # {} /\ settled = {}
  /\ Len(queue) >= 1 /\ ~flushing

(***************************************************************************)
(* Properties of the notifier (checked under Spec).                        *)
(***************************************************************************)

\* number of payloads with key k that are waiting in httpClient.post or that it
\* has delivered
Posted(k) == Cardinality({s \in sends : s.payload.key = k}) + delivered[k]

\* destroy() has not been called on the notifier
Live == ~destroyed

\* C1: with the cache and a key function in use, on a notifier that was not
\* destroyed and within the TTL of the first notify, the payloads of one
\* idempotency key are handed to httpClient.post at most once.
C1_AtMostOnePost ==
  (UsesCache /\ Live /\ now < TtlMs) => \A k \in Keys : Posted(k) <= 1

\* C10: sendBatch calls sendSingle for every item of the batch, whatever the
\* other items do; its onFlush never throws or rejects, so no flush() fails; and
\* it completes only when no delivery of the batch is still waiting.
C10_BatchFanOut ==
  /\ [](failed = {} /\ ~unhandled /\ itemErr = {})
  /\ [][\A r \in runs' \ runs : \A i \in 1..Len(r.batch) :
          NotifierImpl_sendSingle(r.batch[i]) = "post"
            => Send(r.batch[i], FALSE) \in sends']_vars
  /\ [][\A r \in runs \ runs' :
          /\ Ids(r.batch) \subseteq settled'
          /\ ~\E s \in sends' : ~s.direct /\ s.payload.id \in Ids(r.batch)]_vars

C10_Witness ==
  \E r \in runs : \E i, j \in 1..Len(r.batch) :
    /\ NotifierImpl_sendSingle(r.batch[i]) # "post"
    /\ \E s \in sends : s.payload.id = r.batch[j].payload.id /\ s.attempt > 1

\* the step ends the post of send s in failure: its last attempt failed and
\* the promise of post rejects
PostFails(s) ==
  /\ s \in sends /\ s \notin sends' /\ ~HttpClient_retries(s.attempt)
  /\ Cardinality(sends') < Cardinality(sends)
  /\ lastOp' = "postFailed"

\* C11: in batch mode every item whose delivery fails is reported by an
\* invocation of onError for that item: the items sendSingle throws on (card
\* building, webhook resolution) in the step that starts their batch, and the
\* keyed items whose post fails after the last attempt in the step that ends it.
C11_FailuresReported ==
  /\ [][\A r \in runs' \ runs : \A i \in 1..Len(r.batch) :
          NotifierImpl_sendSingle(r.batch[i]) # "post"
            => [fn |-> "onError", id |-> r.batch[i].payload.id] \in callbacks']_vars
  /\ [][\A s \in sends : (~s.direct /\ s.payload.key # "" /\ PostFails(s))
            => [fn |-> "onError", id |-> s.payload.id] \in callbacks']_vars

\* C12: without batching the promise of notify() is pending while its post
\* waits, resolves only in the step in which its post returned (the delivery,
\* counted for a keyed payload) and rejects in the step in which its post
\* threw after the last attempt; a key is in the cache only after a payload of
\* that key was delivered; the step that ends a send of notify() in failure
\* leaves the cache as it is, the step that delivers a keyed payload marks its
\* key until now + ttl, and a notify is suppressed only for a key that was
\* delivered.
C12_DirectDelivery ==
  /\ [](\A s \in sends : s.direct => \A e \in notifyEnded : e.id # s.payload.id)
  /\ [][\A e \in notifyEnded' \ notifyEnded :
          \E s \in sends \ sends' :
            /\ s.direct /\ s.payload.id = e.id
            /\ e.how = "resolved" =>
                 /\ lastOp' # "postFailed"
                 /\ s.payload.key \in Keys =>
                      delivered'[s.payload.key] = delivered[s.payload.key] + 1
            /\ e.how = "rejected" => (PostFails(s) /\ delivered' = delivered)]_vars
  /\ [][\A s \in sends : (s.direct /\ PostFails(s))
          => [id |-> s.payload.id, how |-> "rejected"] \in notifyEnded']_vars
  /\ [][\A s \in sends : (s.direct /\ s \notin sends' /\ Cardinality(sends') < Cardinality(sends)
                          /\ lastOp' # "postFailed")
          => [id |-> s.payload.id, how |-> "resolved"] \in notifyEnded']_vars
  /\ [](~cfg.batchEnabled => \A k \in DOMAIN cache : delivered[k] >= 1)
  /\ [][\A s \in sends : (s.direct /\ PostFails(s)) => cache' = cache]_vars
  /\ [][\A s \in sends :
          (s.direct /\ UsesCache /\ s.payload.key # "" /\ s \notin sends'
             /\ delivered'[s.payload.key] = delivered[s.payload.key] + 1)
            => (s.payload.key \in DOMAIN cache' /\ cache'[s.payload.key] = now + TtlMs)]_vars
  /\ [][(~cfg.batchEnabled /\ lastOp' = "duplicate")
          => \E k \in DOMAIN cache : ~(now > cache[k]) /\ delivered[k] >= 1]_vars

\* a keyed payload is sent again after the notify() before it was rejected
\* with nothing delivered and nothing cached
C12_Witness ==
  /\ ~cfg.batchEnabled /\ UsesCache /\ lastOp = "sending"
  /\ notifyEnded = {[id |-> 1, how |-> "rejected"]}
  /\ \A k \in Keys : delivered[k] = 0
  /\ DOMAIN cache = {}
  /\ \E s \in sends : sends = {s} /\ s.payload.id = 2 /\ s.payload.key # ""

\* a payload of key k waits in the queue or belongs to a batch in progress
Pending(k) ==
  \/ \E i \in 1..Len(queue) : queue[i].payload.key = k
  \/ \E r \in runs : \E i \in 1..Len(r.batch) : r.batch[i].payload.key = k

\* C17: on a notifier that was not destroyed, a key that is in the cache and
\* not expired belongs to a payload that was delivered, or that waits in the
\* queue or in a batch in progress.
C17_CachedMeansSentOrQueued ==
  Live => \A k \in DOMAIN cache : now < cache[k] => (delivered[k] >= 1 \/ Pending(k))

\* two places of the queue hold payloads of one non-empty key
QueueHoldsKeyTwice ==
  \E i, j \in 1..Len(queue) :
    i # j /\ queue[i].payload.key # "" /\ queue[i].payload.key = queue[j].payload.key

\* C18: in batch mode with the cache in use, within the TTL of the first
\* notify, the queue never holds two payloads of one non-empty key (checked
\* under SpecRequeue, where no time passes).
C18_NoKeyTwiceInQueue ==
  (cfg.batchEnabled /\ UsesCache /\ now < TtlMs) => ~QueueHoldsKeyTwice

\* C38: a notify() suppressed as a duplicate changes nothing: no enqueue, no
\* send, no delivery, and the expiry of its key stays what it was. The expiry
\* of a stored key changes only in a step that enqueues a payload of that key
\* or completes a delivery of one, and then to now + ttl.
C38_DuplicateChangesNothing ==
  /\ [][lastOp' = "duplicate" => UNCHANGED <<bmVars, bmHist, nVars>>]_vars
  /\ [][\A k \in DOMAIN cache \cap DOMAIN cache' : cache'[k] # cache[k] =>
          /\ cache'[k] = now + TtlMs
          /\ \/ delivered'[k] = delivered[k] + 1
             \/ /\ lastOp' = "queued"
                /\ queue'[Len(queue')].payload.key = k]_vars

\* a delivered key was asked for again after time had passed: the call was
\* suppressed and the key still expires when the delivery said
C38_Witness ==
  /\ lastOp = "duplicate" /\ ~cfg.batchEnabled
  /\ now = TtlMs
  /\ \E k \in DOMAIN cache : cache[k] = TtlMs /\ delivered[k] = 1

\* C39: once destroy() has torn the cache down it is empty and stays empty,
\* whatever was in flight when destroy() was called (checked under
\* SpecTeardown, where nothing is notified or flushed after destroy()).
C39_CacheStaysEmpty ==
  (cfg.idempotencyEnabled /\ ~cleanupTimer) => DOMAIN cache = {}

\* C20: in batch mode with batchFlushOnDestroy, when destroy() tears the cache
\* down (the step after `await this.batchManager.destroy()`), every delivery
\* of a queued item has completed: no send of a batch is in flight.
C20_TeardownAfterDeliveries ==
  [][(cfg.batchEnabled /\ UsesCache /\ opts.flushOnDestroy /\ cleanupTimer /\ ~cleanupTimer')
       => \A s \in sends' : s.direct]_vars

\* the outcomes of a notify() call
NotifyOps == {"filtered", "duplicate", "queued", "sending", "rejected"}

\* C19: with level 'important' and isImportantEvent supplied, a notify whose
\* extracted event is judged not important returns without error and changes
\* neither queue, cache nor sends, and no onFlush call or post follows from it;
\* with level 'all' no notify is dropped by the filter.
C19_ImportanceFilter ==
  [][lastOp' \in NotifyOps =>
       LET event == NotifierImpl_extractEvent(seen') IN
       /\ (level = "important" /\ schemaFilter /\ Truthy(event)
             /\ ~TombamentoSchema_isImportantEvent(event))
            => /\ lastOp' = "filtered"
               /\ UNCHANGED <<bmVars, bmHist, nVars>>
       /\ level = "all" => lastOp' # "filtered"]_vars

\* a PROCESSING payload was dropped while a key is cached: the filter came
\* before the cache lookup
C19_Witness ==
  /\ lastOp = "filtered" /\ level = "important"
  /\ seen.event = Absent /\ seen.type = "PROCESSING"
  /\ DOMAIN cache # {}

\* C21: in batch mode notify() returns in the step that enqueues: that step
\* invokes no onFlush and starts no send, also when it brings the queue to the
\* size threshold (the flush is left to a setImmediate callback), and it never
\* rejects, whatever becomes of the item's delivery later.
C21_NotifyDoesNotWait ==
  /\ [][(cfg.batchEnabled /\ lastOp' \in NotifyOps)
          => /\ lastOp' \in {"queued", "duplicate", "filtered"}
             /\ NoOnFlush /\ flushing' = flushing
             /\ sends' = sends /\ itemErr' = itemErr /\ failed' = failed]_vars
  /\ [][(lastOp' = "queued" /\ Len(queue') >= opts.size)
          => (immediates' = immediates + 1 /\ NoOnFlush)]_vars

\* a payload buildCard will throw on was enqueued at the size threshold
C21_Witness ==
  /\ lastOp = "queued" /\ Len(queue) >= opts.size /\ immediates >= 1
  /\ queue[Len(queue)].payload.bad
  /\ calls = 0 /\ sends = {}

\* C22: a flush() call that starts no onFlush invocation resolves in its own
\* step; when it does, no item enqueued before the call is still in the queue
\* (a call that starts one drains the queue and resolves when it completes).
C22_FlushForcesPending ==
  [][(cfg.batchEnabled /\ lastOp' = "flush" /\ runs' = runs) => queue' = <<>>]_vars

(***************************************************************************)
(* Properties of the ConfigManager (checked under SpecConfig).             *)
(***************************************************************************)

\* C25: getWebhook without a name returns the default webhook or throws when
\* there is none; with a name a webhook was configured under it returns that
\* webhook; with any other name it returns the default or throws when there
\* is none.
C25_GetWebhook ==
  lastOp = "getWebhook" =>
    /\ ret.key = "" => ret.val = (IF cfg.defaultWebhook THEN "default" ELSE "throw")
    /\ (ret.key # "" /\ ret.key \in webhooks) => ret.val = ret.key
    /\ (ret.key # "" /\ ret.key \notin webhooks /\ ToLowerCase(ret.key) \notin webhooks)
         => ret.val = (IF cfg.defaultWebhook THEN "default" ELSE "throw")

(***************************************************************************)
(* Properties of truncateMessage (checked under SpecTruncate).             *)
(***************************************************************************)

\* C26 as stated: for every text and every maxLength the result of
\* truncateMessage has at most maxLength code units.
C26_TruncateBounded ==
  lastOp = "truncateMessage" => Len(ret.val) <= ret.key.maxLength

\* C26, amended: for every maxLength >= 1 the result has at most maxLength code
\* units; for every maxLength the result is the text when the text has at most
\* maxLength code units, otherwise its first maxLength - 1 code units followed
\* by one ellipsis, and the ellipsis alone when maxLength <= 1.
C26_Truncate ==
  lastOp = "truncateMessage" =>
    LET text == ret.key.text
        maxLength == ret.key.maxLength
    IN /\ maxLength >= 1 => Len(ret.val) <= maxLength
       /\ Len(text) <= maxLength => ret.val = text
       /\ (Len(text) > maxLength /\ maxLength > 1)
            => /\ Len(ret.val) = maxLength
               /\ \A i \in 1..(maxLength - 1) : ret.val[i] = text[i]
               /\ ret.val[maxLength] = Ellipsis
       /\ (Len(text) > maxLength /\ maxLength <= 1) => ret.val = <<Ellipsis>>

\* a text of three code units was cut to two
C26_Witness ==
  /\ lastOp = "truncateMessage"
  /\ Len(ret.key.text) = 3 /\ ret.key.maxLength = 2
  /\ ret.val = <<ret.key.text[1], Ellipsis>>

(***************************************************************************)
(* Properties of the notifier under every schema (checked under SpecSchema)*)
(***************************************************************************)

\* C34: each optional capability of a schema may be missing. Without
\* isImportantEvent no notify() call is filtered, at level 'important' too;
\* without getIdempotencyKey no call is suppressed and the cache is never
\* written, and a payload whose key is empty leaves the cache as it is;
\* without getWebhookName a call that names no webhook posts to the default
\* webhook; and no notify() call rejects and no item of a batch fails before
\* its post.
C34_CapabilitiesOptional ==
  /\ [][~schemaFilter => lastOp' # "filtered"]_vars
  /\ [][~cfg.keyFn => (lastOp' # "duplicate" /\ cache' = cache /\ DOMAIN cache = {})]_vars
  /\ [][/\ (Len(queue') > Len(queue) /\ queue'[Len(queue')].payload.key = "") => cache' = cache
        /\ \A s \in sends' \ sends : (s.direct /\ s.payload.key = "") => cache' = cache
        /\ \A s \in sends \ sends' : s.payload.key = "" => cache' = cache]_vars
  /\ [][\A s \in sends' \ sends : schemaWebhook = Absent => s.url = "default"]_vars
  /\ [][lastOp' # "rejected" /\ itemErr' = {}]_vars

\* two PROCESSING payloads were accepted by a notifier whose schema has none
\* of the three capabilities, and both are posted to the default webhook
C34_Witness ==
  /\ ~schemaFilter /\ ~cfg.keyFn /\ schemaWebhook = Absent
  /\ seen.event = "PROCESSING"
  /\ Cardinality(sends) = 2 /\ \A s \in sends : s.url = "default"
  /\ DOMAIN cache = {}

(***************************************************************************)
(* Properties of the HttpClient (checked under SpecHttp).                  *)
(***************************************************************************)

\* the attempts of the log that failed
FailedAttempts == {i \in 1..Len(http.log) : http.log[i] # "2xx"}

\* C13: with maxRetries >= 1, post makes at most maxRetries attempts; a 2xx
\* response is the last attempt and post returns on it; post throws only after
\* maxRetries attempts that all failed (a network error or a non-2xx response
\* alike), with the error of the last one; and before that every failed attempt
\* is followed by another.
C13_AttemptsBounded ==
  http.maxRetries >= 1 =>
    /\ Len(http.log) <= http.maxRetries
    /\ \A i \in 1..Len(http.log) :
         http.log[i] = "2xx" => (i = Len(http.log) /\ http.phase = "returned")
    /\ http.phase = "returned" => (Len(http.log) >= 1 /\ http.log[Len(http.log)] = "2xx")
    /\ http.phase = "thrown" =>
         /\ Len(http.log) = http.maxRetries
         /\ FailedAttempts = 1..http.maxRetries
         /\ http.error = http.maxRetries
    /\ http.phase \in {"fetch", "hung"} => Len(http.log) = http.attempt - 1
    /\ http.phase = "sleep" => (Len(http.log) = http.attempt /\ http.attempt < http.maxRetries)

C13_Witness ==
  /\ http.maxRetries = 3 /\ http.phase = "returned"
  /\ http.log = <<"network", "non2xx", "2xx">>

\* C14: the k-th sleep of a post lasts initialDelayMs for k = 1 and twice the
\* sleep before it otherwise, and post has slept once per failed attempt that
\* was not the last one allowed: not after a 2xx, not after attempt maxRetries.
C14_Backoff ==
  /\ \A k \in 1..Len(http.sleeps) :
       http.sleeps[k] = IF k = 1 THEN http.initialDelayMs ELSE 2 * http.sleeps[k - 1]
  /\ Len(http.sleeps) = Cardinality({i \in FailedAttempts : i < http.maxRetries})

C14_Witness ==
  /\ http.phase = "thrown" /\ http.maxRetries = 4
  /\ http.sleeps = <<300, 600, 1200>>

\* C15: every post() call ends: it returns or it throws.
C15_PostEnds == <>(http.phase \in {"returned", "thrown"})

\* C28 (checked under SpecRetry): the client of the notifier makes at most
\* options.retryMax attempts (3 by default), and its k-th backoff sleep lasts
\* options.retryBaseMs * 2^(k-1) (base 300 by default).
C28_RetryOptionsReachClient ==
  LET retryMax == IF ret.key.retryMax = Unset THEN 3 ELSE ret.key.retryMax
      retryBaseMs == IF ret.key.retryBaseMs = Unset THEN 300 ELSE ret.key.retryBaseMs
  IN /\ http.maxRetries = retryMax /\ Len(http.log) <= retryMax
     /\ \A k \in 1..Len(http.sleeps) : http.sleeps[k] = retryBaseMs * 2 ^ (k - 1)

(***************************************************************************)
(* Properties of the IdempotencyCache (checked under SpecCache).           *)
(***************************************************************************)

\* C16: right after has(key) returned, its answer is true exactly if the key is
\* stored with now < expiry: a true answer is never given for an entry at or
\* past its expiry, and after a false answer the key is not stored.
C16_HasExact ==
  lastOp = "has" =>
    /\ ret.val => (ret.key \in DOMAIN cache /\ now < cache[ret.key])
    /\ ~ret.val => ret.key \notin DOMAIN cache

\* C32: set(key) leaves the key stored with expiry now + ttl, whether or not
\* it was stored before, and every other entry as it was; only set changes the
\* expiry of a stored key; and has(key) answers true whenever the key is
\* stored and now is before the expiry of the latest set.
C32_LastWriteWins ==
  /\ [][lastOp' \in {"set", "overwrite"} =>
          \E key \in CacheKeys :
            /\ DOMAIN cache' = DOMAIN cache \cup {key}
            /\ cache'[key] = now + TtlMs
            /\ \A k \in DOMAIN cache \ {key} : cache'[k] = cache[k]]_vars
  /\ [][\A k \in DOMAIN cache \cap DOMAIN cache' :
          cache'[k] # cache[k] => lastOp' = "overwrite"]_vars
  /\ [][(lastOp' = "has" /\ ret'.key \in DOMAIN cache /\ now < cache[ret'.key])
          => ret'.val]_vars

\* the only key stored, set before time 2, was set again at time 2
C32_Witness ==
  /\ lastOp = "overwrite" /\ now = 2
  /\ \E k \in CacheKeys : DOMAIN cache = {k} /\ cache[k] = 2 + TtlMs

\* C33: after a sweep no entry with expiry <= now is left, and every entry
\* with expiry > now is kept as it was.
C33_SweepRemovesExpired ==
  [][lastOp' = "cleanup" =>
       /\ \A k \in DOMAIN cache' : cache'[k] > now
       /\ \A k \in DOMAIN cache : cache[k] > now => (k \in DOMAIN cache' /\ cache'[k] = cache[k])]_vars

(***************************************************************************)
(* Properties of TombamentoSchema.getIdempotencyKey (checked under SpecKey)*)
(***************************************************************************)

\* C40: two payloads that differ in event, bucket, object or processed count
\* never get the same key.
C40_KeysSeparateEvents ==
  lastOp = "getIdempotencyKey" => (ret.key[1] # ret.key[2] => ret.val[1] # ret.val[2])

====
